---- MODULE Spec2Model ----
(***************************************************************************)
(* A model of the sandboxed command terminal: Terminal (terminal_core.py)   *)
(* driven by the read-eval loop of cli.py.                                  *)
(*                                                                          *)
(* Text is modelled at character level: a string is a sequence of           *)
(* one-character strings, so that tokenising, path splitting, path          *)
(* printing and comparisons of results are computed, not assumed.           *)
(* The host filesystem is a function from absolute paths (sequences of      *)
(* names) to nodes. It has no symbolic links: no command of the terminal    *)
(* creates one, and Path.resolve() is then the lexical normalisation        *)
(* modelled below.                                                          *)
(***************************************************************************)
EXTENDS Integers, Sequences, FiniteSets, TLC

VARIABLES
    fs,     \* the host filesystem
    cwd,    \* Terminal.cwd
    pc,     \* where the front end is: "prompt", "report", "done", "crashed"
    line,   \* the command line handed to run
    out,    \* what run returned or raised
    web,    \* web_app: the requests in progress, one per caller
    own     \* per caller, the directory its own cd commands led to

vars == <<fs, cwd, pc, line, out, web, own>>

\* Commands and flags compared against tokens in Terminal.run
s_ls == <<"l", "s">>
s_dir == <<"d", "i", "r">>
s_pwd == <<"p", "w", "d">>
s_cd == <<"c", "d">>
s_mkdir == <<"m", "k", "d", "i", "r">>
s_rm == <<"r", "m">>
s_del == <<"d", "e", "l">>
s_touch == <<"t", "o", "u", "c", "h">>
s_cat == <<"c", "a", "t">>
s_mv == <<"m", "v">>
s_cp == <<"c", "p">>
s_stat == <<"s", "t", "a", "t">>
s_sysinfo == <<"s", "y", "s", "i", "n", "f", "o">>
s_ps == <<"p", "s">>
s_help == <<"h", "e", "l", "p">>
s_qmark == <<"?">>
s_exit == <<"e", "x", "i", "t">>
s_quit == <<"q", "u", "i", "t">>
s_dash_r == <<"-", "r">>
s_dot == <<".">>
s_dotdot == <<".", ".">>

\* Message texts of terminal_core.py
m_outside == <<"P", "a", "t", "h", " ", "o", "u", "t", "s", "i", "d", "e", " ", "s", "a", "n", "d", "b", "o", "x", ":", " ">>
m_no_such == <<"N", "o", " ", "s", "u", "c", "h", " ", "f", "i", "l", "e", " ", "o", "r", " ", "d", "i", "r", "e", "c", "t", "o", "r", "y">>
m_not_a_dir == <<"N", "o", "t", " ", "a", " ", "d", "i", "r", "e", "c", "t", "o", "r", "y">>
m_cat_err == <<"N", "o", " ", "s", "u", "c", "h", " ", "f", "i", "l", "e", " ", "o", "r", " ", "f", "i", "l", "e", " ", "i", "s", " ", "a", " ", "d", "i", "r", "e", "c", "t", "o", "r", "y">>
m_created == <<"C", "r", "e", "a", "t", "e", "d", ":", " ">>
m_removed_tree == <<"R", "e", "m", "o", "v", "e", "d", " ", "d", "i", "r", "e", "c", "t", "o", "r", "y", " ", "t", "r", "e", "e", ":", " ">>
m_removed_dir == <<"R", "e", "m", "o", "v", "e", "d", " ", "d", "i", "r", "e", "c", "t", "o", "r", "y", ":", " ">>
m_removed_file == <<"R", "e", "m", "o", "v", "e", "d", " ", "f", "i", "l", "e", ":", " ">>
m_touched == <<"T", "o", "u", "c", "h", "e", "d", ":", " ">>
m_moved == <<"M", "o", "v", "e", "d", " ">>
m_arrow == <<" ", "-", ">", " ">>
m_copied == <<"C", "o", "p", "i", "e", "d", " ">>
m_mkdir_missing == <<"m", "k", "d", "i", "r", ":", " ", "m", "i", "s", "s", "i", "n", "g", " ", "o", "p", "e", "r", "a", "n", "d">>
m_rm_missing == <<"r", "m", ":", " ", "m", "i", "s", "s", "i", "n", "g", " ", "o", "p", "e", "r", "a", "n", "d">>
m_touch_missing == <<"t", "o", "u", "c", "h", ":", " ", "m", "i", "s", "s", "i", "n", "g", " ", "o", "p", "e", "r", "a", "n", "d">>
m_cat_missing == <<"c", "a", "t", ":", " ", "m", "i", "s", "s", "i", "n", "g", " ", "o", "p", "e", "r", "a", "n", "d">>
m_mv_missing == <<"m", "v", ":", " ", "m", "i", "s", "s", "i", "n", "g", " ", "o", "p", "e", "r", "a", "n", "d", "s">>
m_cp_missing == <<"c", "p", ":", " ", "m", "i", "s", "s", "i", "n", "g", " ", "o", "p", "e", "r", "a", "n", "d", "s">>
m_stat_missing == <<"s", "t", "a", "t", ":", " ", "m", "i", "s", "s", "i", "n", "g", " ", "o", "p", "e", "r", "a", "n", "d">>
m_unsupported == <<"U", "n", "s", "u", "p", "p", "o", "r", "t", "e", "d", " ", "c", "o", "m", "m", "a", "n", "d", ":", " ">>
m_help == <<"C", "o", "m", "m", "a", "n", "d", "s", ":", " ", "l", "s", " ", "p", "w", "d", " ", "c", "d", " ", "m", "k", "d", "i", "r", " ", "r", "m", " ", "t", "o", "u", "c", "h", " ", "c", "a", "t", " ", "m", "v", " ", "c", "p", " ", "s", "t", "a", "t", " ", "s", "y", "s", "i", "n", "f", "o", " ", "p", "s", " ", "h", "e", "l", "p", " ", "e", "x", "i", "t">>
m_size == <<"s", "i", "z", "e", ":", " ">>
m_bytes_mode == <<" ", "b", "y", "t", "e", "s", "\n", "m", "o", "d", "e", ":", " ">>
m_mtime == <<"\n", "m", "t", "i", "m", "e", ":", " ">>
m_cpu == <<"C", "P", "U", ":", " ">>
m_pct_memory == <<"%", "\n", "M", "e", "m", "o", "r", "y", ":", " ">>
m_pct_paren == <<"%", " ", "(">>
m_mb_used == <<"M", "B", " ", "u", "s", "e", "d", ")">>
m_user == <<" ", "u", "s", "e", "r", "=">>
m_na == <<"N", "/", "A">>
m_cpu_eq == <<" ", "c", "p", "u", "=">>
m_pct_mem == <<"%", " ", "m", "e", "m", "=">>
m_pct == <<"%">>

\* Message texts of the Python library exceptions the handlers let through
e_no_closing == <<"N", "o", " ", "c", "l", "o", "s", "i", "n", "g", " ", "q", "u", "o", "t", "a", "t", "i", "o", "n">>
e_no_escaped == <<"N", "o", " ", "e", "s", "c", "a", "p", "e", "d", " ", "c", "h", "a", "r", "a", "c", "t", "e", "r">>
e_enoent == <<"[", "E", "r", "r", "n", "o", " ", "2", "]", " ", "N", "o", " ", "s", "u", "c", "h", " ", "f", "i", "l", "e", " ", "o", "r", " ", "d", "i", "r", "e", "c", "t", "o", "r", "y", ":", " ">>
e_eexist == <<"[", "E", "r", "r", "n", "o", " ", "1", "7", "]", " ", "F", "i", "l", "e", " ", "e", "x", "i", "s", "t", "s", ":", " ">>
e_enotdir == <<"[", "E", "r", "r", "n", "o", " ", "2", "0", "]", " ", "N", "o", "t", " ", "a", " ", "d", "i", "r", "e", "c", "t", "o", "r", "y", ":", " ">>
e_eisdir == <<"[", "E", "r", "r", "n", "o", " ", "2", "1", "]", " ", "I", "s", " ", "a", " ", "d", "i", "r", "e", "c", "t", "o", "r", "y", ":", " ">>
e_enotempty == <<"[", "E", "r", "r", "n", "o", " ", "3", "9", "]", " ", "D", "i", "r", "e", "c", "t", "o", "r", "y", " ", "n", "o", "t", " ", "e", "m", "p", "t", "y", ":", " ">>
e_dest_path == <<"D", "e", "s", "t", "i", "n", "a", "t", "i", "o", "n", " ", "p", "a", "t", "h", " ">>
e_already_exists == <<" ", "a", "l", "r", "e", "a", "d", "y", " ", "e", "x", "i", "s", "t", "s">>
e_cannot_move == <<"C", "a", "n", "n", "o", "t", " ", "m", "o", "v", "e", " ", "a", " ", "d", "i", "r", "e", "c", "t", "o", "r", "y", " ">>
e_into_itself == <<" ", "i", "n", "t", "o", " ", "i", "t", "s", "e", "l", "f", " ">>
e_and == <<" ", "a", "n", "d", " ">>
e_same_file == <<" ", "a", "r", "e", " ", "t", "h", "e", " ", "s", "a", "m", "e", " ", "f", "i", "l", "e">>
e_invalid_int == <<"i", "n", "v", "a", "l", "i", "d", " ", "l", "i", "t", "e", "r", "a", "l", " ", "f", "o", "r", " ", "i", "n", "t", "(", ")", " ", "w", "i", "t", "h", " ", "b", "a", "s", "e", " ", "1", "0", ":", " ">>

\* ------------------------------------------------------------------ text

SP == " "
TAB == "\t"
NL == "\n"
SQ == "'"
DQ == "\""
BS == "\\"
SL == "/"

\* shlex: whitespace, quotes, escape, escapedquotes (posix mode)
Whitespace == {SP, TAB, "\r", NL}
Quotes == {SQ, DQ}
EscapedQuotes == {DQ}

\* Code points of the characters that occur in file names, for the ordering
\* of strings.
Code(c) ==
    CASE c = SP -> 32 [] c = "-" -> 45 [] c = "." -> 46
      [] c = "0" -> 48 [] c = "1" -> 49 [] c = "2" -> 50 [] c = "3" -> 51
      [] c = "4" -> 52 [] c = "5" -> 53 [] c = "6" -> 54 [] c = "7" -> 55
      [] c = "8" -> 56 [] c = "9" -> 57
      [] c = "a" -> 97 [] c = "b" -> 98 [] c = "c" -> 99 [] c = "d" -> 100
      [] c = "e" -> 101 [] c = "f" -> 102 [] c = "i" -> 105 [] c = "r" -> 114
      [] c = "t" -> 116 [] c = "x" -> 120

\* Python's str < str: lexicographic by code point.
RECURSIVE StrLess(_, _)
StrLess(s, t) ==
    IF t = <<>> THEN FALSE
    ELSE IF s = <<>> THEN TRUE
    ELSE IF s[1] = t[1] THEN StrLess(Tail(s), Tail(t))
    ELSE Code(s[1]) < Code(t[1])

\* sep.join(parts)
RECURSIVE Join(_, _)
Join(parts, sep) ==
    IF parts = <<>> THEN <<>>
    ELSE IF Len(parts) = 1 THEN parts[1]
    ELSE parts[1] \o sep \o Join(Tail(parts), sep)

\* s.startswith(t)
StartsWith(s, t) == Len(t) <= Len(s) /\ SubSeq(s, 1, Len(t)) = t

\* t occurs in s
Contains(s, t) ==
    \E i \in 1..(Len(s) - Len(t) + 1) : SubSeq(s, i, i + Len(t) - 1) = t

\* repr() of a string without quotes or backslashes in it
Repr(s) == <<SQ>> \o s \o <<SQ>>

\* ------------------------------------------------------------ shlex.split

\* shlex.split(cmdline): the posix-mode token reader with whitespace_split and
\* no comment characters. st is shlex's state (" " between tokens, "a" in a
\* word, a quote character, or the escape character), esc its escapedstate,
\* tok the token being read, toks the tokens read so far.
RECURSIVE read_tokens(_, _, _, _, _, _)
read_tokens(s, i, st, esc, tok, toks) ==
    IF i > Len(s)
    THEN CASE st = SP -> [ok |-> TRUE, tokens |-> toks, msg |-> <<>>]
           [] st = "a" -> [ok |-> TRUE, tokens |-> Append(toks, tok), msg |-> <<>>]
           [] st \in Quotes -> [ok |-> FALSE, tokens |-> <<>>, msg |-> e_no_closing]
           [] st = BS -> [ok |-> FALSE, tokens |-> <<>>, msg |-> e_no_escaped]
    ELSE LET c == s[i] IN
         CASE st = SP ->
                IF c \in Whitespace THEN read_tokens(s, i + 1, SP, esc, <<>>, toks)
                ELSE IF c = BS THEN read_tokens(s, i + 1, BS, "a", <<>>, toks)
                ELSE IF c \in Quotes THEN read_tokens(s, i + 1, c, esc, <<>>, toks)
                ELSE read_tokens(s, i + 1, "a", esc, <<c>>, toks)
           [] st = "a" ->
                IF c \in Whitespace
                THEN read_tokens(s, i + 1, SP, esc, <<>>, Append(toks, tok))
                ELSE IF c \in Quotes THEN read_tokens(s, i + 1, c, esc, tok, toks)
                ELSE IF c = BS THEN read_tokens(s, i + 1, BS, "a", tok, toks)
                ELSE read_tokens(s, i + 1, "a", esc, Append(tok, c), toks)
           [] st \in Quotes ->
                IF c = st THEN read_tokens(s, i + 1, "a", esc, tok, toks)
                ELSE IF c = BS /\ st \in EscapedQuotes
                     THEN read_tokens(s, i + 1, BS, st, tok, toks)
                ELSE read_tokens(s, i + 1, st, esc, Append(tok, c), toks)
           [] st = BS ->
                LET kept == IF esc \in Quotes /\ c # BS /\ c # esc
                            THEN Append(tok, BS) ELSE tok
                IN  read_tokens(s, i + 1, esc, esc, Append(kept, c), toks)

shlex_split(s) == read_tokens(s, 1, SP, SP, <<>>, <<>>)

\* ------------------------------------------------------------------ paths

\* An absolute host path is the sequence of its names; <<>> is the host's "/".
\* The confinement root of the model is /r (self.root, already resolved).
root == << <<"r">> >>

IsPrefix(a, b) == Len(a) <= Len(b) /\ SubSeq(b, 1, Len(a)) = a

\* s.split("/")
RECURSIVE SplitSlash(_, _, _, _)
SplitSlash(s, i, cur, acc) ==
    IF i > Len(s) THEN Append(acc, cur)
    ELSE IF s[i] = SL THEN SplitSlash(s, i + 1, <<>>, Append(acc, cur))
    ELSE SplitSlash(s, i + 1, Append(cur, s[i]), acc)

\* Path(path).parts without the anchor: empty and "." components are dropped
PathParts(path) ==
    SelectSeq(SplitSlash(path, 1, <<>>, <<>>), LAMBDA n : n # <<>> /\ n # s_dot)

\* Path(path).is_absolute()
is_absolute(path) == path # <<>> /\ path[1] = SL

\* Path.resolve() on a filesystem without symbolic links: ".." drops the last
\* name (the parent of "/" is "/"), whether or not the path exists.
RECURSIVE Normalize(_, _)
Normalize(base, parts) ==
    IF parts = <<>> THEN base
    ELSE IF parts[1] = s_dotdot
         THEN Normalize(IF base = <<>> THEN <<>> ELSE SubSeq(base, 1, Len(base) - 1),
                        Tail(parts))
    ELSE Normalize(Append(base, parts[1]), Tail(parts))

\* str(p) of an absolute path
PathStr(p) == <<SL>> \o Join(p, <<SL>>)

\* str(p.relative_to(self.root)) for p within root
RelStr(p) ==
    IF Len(p) <= Len(root) THEN s_dot
    ELSE Join(SubSeq(p, Len(root) + 1, Len(p)), <<SL>>)

Parent(p) == IF p = <<>> THEN <<>> ELSE SubSeq(p, 1, Len(p) - 1)

Name(p) == p[Len(p)]

\* ------------------------------------------------------------- filesystem

DirNode == [dir |-> TRUE, data |-> <<>>]
FileNode(d) == [dir |-> FALSE, data |-> d]

exists(f, p) == p \in DOMAIN f
is_dir(f, p) == p \in DOMAIN f /\ f[p].dir

Children(f, p) == {q \in DOMAIN f : Len(q) = Len(p) + 1 /\ IsPrefix(p, q)}
Subtree(f, p) == {q \in DOMAIN f : IsPrefix(p, q)}

Without(f, S) == [q \in DOMAIN f \ S |-> f[q]]
With(f, p, node) == [q \in DOMAIN f \cup {p} |-> IF q = p THEN node ELSE f[q]]

\* The outcome of a library call or of a handler: exc is "none" or the class
\* of the exception raised, text the returned string or str(exception).
Ok(text, f, c) == [exc |-> "none", text |-> text, fs |-> f, cwd |-> c, unbounded |-> FALSE]
Raise(cls, text, f, c) == [exc |-> cls, text |-> text, fs |-> f, cwd |-> c, unbounded |-> FALSE]

\* The longest prefix of p that exists ("/" always does)
DeepestExisting(f, p) ==
    LET n == CHOOSE k \in 0..Len(p) :
                 /\ SubSeq(p, 1, k) \in DOMAIN f
                 /\ \A j \in (k + 1)..Len(p) : SubSeq(p, 1, j) \notin DOMAIN f
    IN  SubSeq(p, 1, n)

\* A Path.mkdir(exist_ok=True) without parents=True. C12 does not hold of it.
mkdir_no_parents(f, c, p) ==
    IF p \in DOMAIN f
    THEN IF f[p].dir THEN Ok(<<>>, f, c)
         ELSE Raise("FileExistsError", e_eexist \o Repr(PathStr(p)), f, c)
    ELSE IF ~exists(f, Parent(p))
         THEN Raise("FileNotFoundError", e_enoent \o Repr(PathStr(p)), f, c)
    ELSE IF ~f[Parent(p)].dir
         THEN Raise("NotADirectoryError", e_enotdir \o Repr(PathStr(p)), f, c)
    ELSE Ok(<<>>, With(f, p, DirNode), c)

\* Path.mkdir(parents=True, exist_ok=True)
mkdir_parents(f, c, p) ==
    IF p \in DOMAIN f
    THEN IF f[p].dir THEN Ok(<<>>, f, c)
         ELSE Raise("FileExistsError", e_eexist \o Repr(PathStr(p)), f, c)
    ELSE LET anc == DeepestExisting(f, p) IN
         IF ~f[anc].dir
         THEN Raise("NotADirectoryError", e_enotdir \o Repr(PathStr(p)), f, c)
         ELSE Ok(<<>>,
                 [q \in DOMAIN f \cup {SubSeq(p, 1, k) : k \in (Len(anc) + 1)..Len(p)} |->
                     IF q \in DOMAIN f THEN f[q] ELSE DirNode],
                 c)

\* The OSError of a system call on a path that does not exist: ENOTDIR when
\* the path runs through a file, else ENOENT
NoSuchPath(f, c, p) ==
    IF ~f[DeepestExisting(f, p)].dir
    THEN Raise("NotADirectoryError", e_enotdir \o Repr(PathStr(p)), f, c)
    ELSE Raise("FileNotFoundError", e_enoent \o Repr(PathStr(p)), f, c)

\* An rmtree that removes the directory and leaves what was in it.
\* C11 does not hold of it.
RemoveTree_shallow(f, p) == Without(f, {p})

\* shutil.rmtree(p) / os.rename of a whole subtree
RemoveTree(f, p) == Without(f, Subtree(f, p))

MoveTree(f, s, d) ==
    LET moved == Subtree(f, s)
        rest == Without(f, moved)
        to(q) == d \o SubSeq(q, Len(s) + 1, Len(q))
    IN  [q \in DOMAIN rest \cup {to(m) : m \in moved} |->
            IF \E m \in moved : to(m) = q
            THEN f[CHOOSE m \in moved : to(m) = q]
            ELSE rest[q]]
CopyTree(f, s, d) ==
    LET src == Subtree(f, s)
        to(q) == d \o SubSeq(q, Len(s) + 1, Len(q))
    IN  [q \in DOMAIN f \cup {to(m) : m \in src} |->
            IF \E m \in src : to(m) = q
            THEN f[CHOOSE m \in src : to(m) = q]
            ELSE f[q]]

\* --------------------------------------------------------------- Terminal

\* A _resolve_path that compares the text of the paths instead of their
\* components: "/r2" begins with "/r". C1 does not hold of it.
_resolve_path_by_text(c, path) ==
    LET new == IF is_absolute(path) THEN Normalize(<<>>, PathParts(path))
               ELSE Normalize(c, PathParts(path))
    IN  IF StartsWith(PathStr(new), PathStr(root))
        THEN [ok |-> TRUE, p |-> new, text |-> <<>>]
        ELSE [ok |-> FALSE, p |-> new, text |-> m_outside \o path]

\* Terminal._resolve_path: new is the resolved path; TerminalError when it is
\* not root or below root (Path.relative_to compares whole components).
_resolve_path(c, path) ==
    LET new == IF is_absolute(path) THEN Normalize(<<>>, PathParts(path))
               ELSE Normalize(c, PathParts(path))
    IN  IF IsPrefix(root, new)
        THEN [ok |-> TRUE, p |-> new, text |-> <<>>]
        ELSE [ok |-> FALSE, p |-> new, text |-> m_outside \o path]

\* sorted(names): ascending by code point
RECURSIVE Sorted(_)
Sorted(S) ==
    IF S = {} THEN <<>>
    ELSE LET m == CHOOSE x \in S : \A y \in S \ {x} : StrLess(x, y)
         IN  <<m>> \o Sorted(S \ {m})

\* Terminal.ls
ls(f, c, path) ==
    LET r == _resolve_path(c, path) IN
    IF ~r.ok THEN Raise("TerminalError", r.text, f, c)
    ELSE IF ~exists(f, r.p) THEN Raise("TerminalError", m_no_such, f, c)
    ELSE IF ~is_dir(f, r.p)
         THEN Raise("NotADirectoryError", e_enotdir \o Repr(PathStr(r.p)), f, c)
    ELSE LET names == Sorted({Name(q) : q \in Children(f, r.p)})
             entry(n) == n \o (IF is_dir(f, Append(r.p, n)) THEN <<SL>> ELSE <<>>)
         IN  Ok(Join([i \in 1..Len(names) |-> entry(names[i])], <<NL>>), f, c)

\* Terminal.pwd
pwd(c) == IF c = root THEN <<SL>> ELSE <<SL>> \o RelStr(c)

\* A cd that assigns the working directory before it tests the target.
\* C5 does not hold of it.
cd_assign_first(f, c, path) ==
    LET r == _resolve_path(c, path) IN
    IF ~r.ok THEN Raise("TerminalError", r.text, f, c)
    ELSE IF ~is_dir(f, r.p) THEN Raise("TerminalError", m_not_a_dir, f, r.p)
    ELSE Ok(pwd(r.p), f, r.p)

\* Terminal.cd
cd(f, c, path) ==
    LET r == _resolve_path(c, path) IN
    IF ~r.ok THEN Raise("TerminalError", r.text, f, c)
    ELSE IF ~is_dir(f, r.p) THEN Raise("TerminalError", m_not_a_dir, f, c)
    ELSE Ok(pwd(r.p), f, r.p)

\* Terminal.mkdir
mkdir(f, c, path) ==
    LET r == _resolve_path(c, path) IN
    IF ~r.ok THEN Raise("TerminalError", r.text, f, c)
    ELSE LET m == mkdir_parents(f, c, r.p) IN
         IF m.exc # "none" THEN m
         ELSE Ok(m_created \o RelStr(r.p), m.fs, c)

\* An rm that removes a directory with what is in it, flag or no flag.
\* C15 does not hold of it.
rm_always_tree(f, c, path, recursive) ==
    LET r == _resolve_path(c, path) IN
    IF ~r.ok THEN Raise("TerminalError", r.text, f, c)
    ELSE IF ~exists(f, r.p) THEN Raise("TerminalError", m_no_such, f, c)
    ELSE IF is_dir(f, r.p)
         THEN Ok(m_removed_tree \o RelStr(r.p), RemoveTree(f, r.p), c)
    ELSE Ok(m_removed_file \o RelStr(r.p), Without(f, {r.p}), c)

\* Terminal.rm
rm(f, c, path, recursive) ==
    LET r == _resolve_path(c, path) IN
    IF ~r.ok THEN Raise("TerminalError", r.text, f, c)
    ELSE IF ~exists(f, r.p) THEN Raise("TerminalError", m_no_such, f, c)
    ELSE IF is_dir(f, r.p)
         THEN IF recursive
              THEN Ok(m_removed_tree \o RelStr(r.p), RemoveTree(f, r.p), c)
              ELSE IF Children(f, r.p) # {}
                   THEN Raise("OSError", e_enotempty \o Repr(PathStr(r.p)), f, c)
                   ELSE Ok(m_removed_dir \o RelStr(r.p), Without(f, {r.p}), c)
    ELSE Ok(m_removed_file \o RelStr(r.p), Without(f, {r.p}), c)

\* Terminal.touch
touch(f, c, path) ==
    LET r == _resolve_path(c, path) IN
    IF ~r.ok THEN Raise("TerminalError", r.text, f, c)
    ELSE LET m == mkdir_parents(f, c, Parent(r.p)) IN
         IF m.exc # "none" THEN m
         ELSE Ok(m_touched \o RelStr(r.p),
                 IF exists(m.fs, r.p) THEN m.fs ELSE With(m.fs, r.p, FileNode(<<>>)),
                 c)

\* Terminal.cat
cat(f, c, path) ==
    LET r == _resolve_path(c, path) IN
    IF ~r.ok THEN Raise("TerminalError", r.text, f, c)
    ELSE IF ~exists(f, r.p) \/ is_dir(f, r.p) THEN Raise("TerminalError", m_cat_err, f, c)
    ELSE Ok(f[r.p].data, f, c)

\* shutil.move(src, dst), as called by Terminal.mv
shutil_move(f, c, s, d) ==
    LET into == is_dir(f, d) /\ s # d
        real_dst == IF into THEN Append(d, Name(s)) ELSE d
    IN  IF is_dir(f, d) /\ s = d THEN Ok(<<>>, f, c)
        ELSE IF into /\ exists(f, real_dst)
             THEN Raise("Error", e_dest_path \o Repr(PathStr(real_dst)) \o e_already_exists, f, c)
        ELSE IF ~exists(f, s) THEN NoSuchPath(f, c, s)
        ELSE IF ~is_dir(f, s)
             THEN IF s = real_dst THEN Ok(<<>>, f, c) ELSE Ok(<<>>, MoveTree(f, s, real_dst), c)
        ELSE IF IsPrefix(s, d)
             THEN Raise("Error", e_cannot_move \o Repr(PathStr(s)) \o e_into_itself
                                 \o Repr(PathStr(d)) \o <<".">>, f, c)
        ELSE IF exists(f, real_dst)
             THEN Raise("FileExistsError", e_eexist \o Repr(PathStr(real_dst)), f, c)
        ELSE Ok(<<>>, MoveTree(f, s, real_dst), c)

\* An mv that confines its source only. C2 does not hold of it.
mv_src_only(f, c, src, dst) ==
    LET s == _resolve_path(c, src) IN
    IF ~s.ok THEN Raise("TerminalError", s.text, f, c)
    ELSE LET d == _resolve_path(c, dst) IN
    LET m == mkdir_parents(f, c, Parent(d.p)) IN
    IF m.exc # "none" THEN m
    ELSE LET r == shutil_move(m.fs, c, s.p, d.p) IN
    IF r.exc # "none" THEN r
    ELSE Ok(m_moved \o RelStr(s.p) \o m_arrow \o RelStr(d.p), r.fs, c)

\* Terminal.mv
mv(f, c, src, dst) ==
    LET s == _resolve_path(c, src) IN
    IF ~s.ok THEN Raise("TerminalError", s.text, f, c)
    ELSE LET d == _resolve_path(c, dst) IN
    IF ~d.ok THEN Raise("TerminalError", d.text, f, c)
    ELSE LET m == mkdir_parents(f, c, Parent(d.p)) IN
    IF m.exc # "none" THEN m
    ELSE LET r == shutil_move(m.fs, c, s.p, d.p) IN
    IF r.exc # "none" THEN r
    ELSE Ok(m_moved \o RelStr(s.p) \o m_arrow \o RelStr(d.p), r.fs, c)

\* shutil.copytree(src, dst): the entries of each directory are listed before
\* its copy is created. A destination more than one level inside the source
\* makes the copy descend into itself without end (until the interpreter's
\* recursion limit): that outcome has no bounded filesystem and is marked.
shutil_copytree(f, c, s, d) ==
    IF exists(f, d) THEN Raise("FileExistsError", e_eexist \o Repr(PathStr(d)), f, c)
    ELSE IF IsPrefix(s, d) /\ Len(d) > Len(s) + 1
         THEN [Ok(<<>>, f, c) EXCEPT !.unbounded = TRUE]
    ELSE Ok(<<>>, CopyTree(f, s, d), c)

\* shutil.copy2(src, dst) for a source that is not a directory
shutil_copy2(f, c, s, d) ==
    LET real_dst == IF is_dir(f, d) THEN Append(d, Name(s)) ELSE d IN
    IF exists(f, s) /\ s = real_dst
    THEN Raise("SameFileError", Repr(PathStr(s)) \o e_and \o Repr(PathStr(real_dst))
                                \o e_same_file, f, c)
    ELSE IF ~exists(f, s) THEN NoSuchPath(f, c, s)
    ELSE IF is_dir(f, real_dst)
         THEN Raise("IsADirectoryError", e_eisdir \o Repr(PathStr(real_dst)), f, c)
    ELSE Ok(<<>>, With(f, real_dst, FileNode(f[s].data)), c)

\* Terminal.cp
cp(f, c, src, dst) ==
    LET s == _resolve_path(c, src) IN
    IF ~s.ok THEN Raise("TerminalError", s.text, f, c)
    ELSE LET d == _resolve_path(c, dst) IN
    IF ~d.ok THEN Raise("TerminalError", d.text, f, c)
    ELSE LET m == mkdir_parents(f, c, Parent(d.p)) IN
    IF m.exc # "none" THEN m
    ELSE LET r == IF is_dir(m.fs, s.p) THEN shutil_copytree(m.fs, c, s.p, d.p)
                  ELSE shutil_copy2(m.fs, c, s.p, d.p) IN
    IF r.exc # "none" \/ r.unbounded THEN r
    ELSE Ok(m_copied \o RelStr(s.p) \o m_arrow \o RelStr(d.p), r.fs, c)

\* ------------------------------------------------------- numbers as text

Digits == {"0", "1", "2", "3", "4", "5", "6", "7", "8", "9"}
DigitChar(d) == CHOOSE ch \in Digits : Code(ch) = 48 + d

\* str(n) for n >= 0
RECURSIVE Decimal(_)
Decimal(n) == IF n < 10 THEN <<DigitChar(n)>> ELSE Decimal(n \div 10) \o <<DigitChar(n % 10)>>

\* f"{x:.1f}" for x >= 0 given in tenths
Fixed1(t) == Decimal(t \div 10) \o <<".">> \o Decimal(t % 10)

\* f"{s:>w}" and f"{s:w}"
RECURSIVE Spaces(_)
Spaces(n) == IF n <= 0 THEN <<>> ELSE <<SP>> \o Spaces(n - 1)
PadLeft(s, w) == Spaces(w - Len(s)) \o s
PadRight(s, w) == s \o Spaces(w - Len(s))

RECURSIVE DigitsValue(_, _)
DigitsValue(s, acc) ==
    IF s = <<>> THEN acc ELSE DigitsValue(Tail(s), 10 * acc + (Code(s[1]) - 48))

\* int(s) for a token: an optional sign and decimal digits, else ValueError
ParseInt(s) ==
    LET signed == s # <<>> /\ s[1] \in {"+", "-"}
        body == IF signed THEN Tail(s) ELSE s
    IN  IF body # <<>> /\ \A i \in 1..Len(body) : body[i] \in Digits
        THEN [ok |-> TRUE,
              n |-> IF signed /\ s[1] = "-" THEN 0 - DigitsValue(body, 0)
                    ELSE DigitsValue(body, 0)]
        ELSE [ok |-> FALSE, n |-> 0]

\* ------------------------------------------------- host readings (psutil, stat)

\* What the host reports when asked: st_mtime and a directory's st_size as
\* text, psutil's cpu and memory figures as text, and the process table with
\* cpu and mem in tenths of a percent (-1 where psutil has None) and the
\* user name (<<>> where psutil has None or "").
o_file_mode == <<"0", "o", "1", "0", "0", "6", "4", "4">>
o_dir_mode == <<"0", "o", "4", "0", "7", "5", "5">>

\* Terminal.stat
stat(f, c, path, env) ==
    LET r == _resolve_path(c, path) IN
    IF ~r.ok THEN Raise("TerminalError", r.text, f, c)
    ELSE IF ~exists(f, r.p) THEN Raise("TerminalError", m_no_such, f, c)
    ELSE Ok(m_size \o (IF is_dir(f, r.p) THEN env.dirsize ELSE Decimal(Len(f[r.p].data)))
            \o m_bytes_mode \o (IF is_dir(f, r.p) THEN o_dir_mode ELSE o_file_mode)
            \o m_mtime \o env.mtime, f, c)

\* Terminal.sysinfo
sysinfo(f, c, env) ==
    Ok(m_cpu \o env.cpu \o m_pct_memory \o env.mem \o m_pct_paren \o env.used
       \o m_mb_used, f, c)

\* x or 0
OrZero(x) == IF x < 0 THEN 0 ELSE x

\* list.sort(reverse=True, key=cpu): descending and stable
RECURSIVE InsertDesc(_, _)
InsertDesc(sorted, x) ==
    IF sorted = <<>> THEN <<x>>
    ELSE IF OrZero(sorted[1].cpu_percent) >= OrZero(x.cpu_percent)
         THEN <<sorted[1]>> \o InsertDesc(Tail(sorted), x)
    ELSE <<x>> \o sorted
RECURSIVE SortDesc(_)
SortDesc(procs) ==
    IF procs = <<>> THEN <<>>
    ELSE InsertDesc(SortDesc(SubSeq(procs, 1, Len(procs) - 1)), procs[Len(procs)])

\* procs[:limit] with Python's slice rule for a negative limit
SliceTo(procs, limit) ==
    IF limit >= 0 THEN SubSeq(procs, 1, IF limit < Len(procs) THEN limit ELSE Len(procs))
    ELSE SubSeq(procs, 1, Len(procs) + limit)

\* The records Terminal.ps lists, in order
ps_records(env, limit) == SliceTo(SortDesc(env.procs), limit)

ps_line(info) ==
    PadLeft(Decimal(info.pid), 6) \o <<SP>>
    \o PadRight(SubSeq(info.name, 1, IF Len(info.name) < 25 THEN Len(info.name) ELSE 25), 25)
    \o m_user \o (IF info.username = <<>> THEN m_na ELSE info.username)
    \o m_cpu_eq \o Fixed1(OrZero(info.cpu_percent))
    \o m_pct_mem \o Fixed1(OrZero(info.memory_percent)) \o m_pct

\* Terminal.ps
ps(f, c, env, limit) ==
    LET recs == ps_records(env, limit)
    IN  Ok(Join([i \in 1..Len(recs) |-> ps_line(recs[i])], <<NL>>), f, c)

\* ---------------------------------------------------------- Terminal.run

\* The branches of run's dispatch
run_rm(f, c, args) ==
    IF args = <<>> THEN Raise("TerminalError", m_rm_missing, f, c)
    ELSE LET recursive == args[1] = s_dash_r
             target == IF recursive THEN (IF Len(args) > 1 THEN args[2] ELSE <<>>)
                       ELSE args[1]
         IN  IF target = <<>> THEN Raise("TerminalError", m_rm_missing, f, c)
             ELSE rm(f, c, target, recursive)

run_mkdir(f, c, args) ==
    IF args = <<>> THEN Raise("TerminalError", m_mkdir_missing, f, c)
    ELSE mkdir(f, c, args[1])

run_touch(f, c, args) ==
    IF args = <<>> THEN Raise("TerminalError", m_touch_missing, f, c)
    ELSE touch(f, c, args[1])

run_cat(f, c, args) ==
    IF args = <<>> THEN Raise("TerminalError", m_cat_missing, f, c)
    ELSE cat(f, c, args[1])

\* A run branch for mv that indexes its operands without counting them.
\* C7 does not hold of it.
run_mv_uncounted(f, c, args) ==
    IF Len(args) < 2
    THEN Raise("IndexError", <<"l", "i", "s", "t", " ", "i", "n", "d", "e", "x", " ",
                               "o", "u", "t", " ", "o", "f", " ", "r", "a", "n", "g", "e">>, f, c)
    ELSE mv(f, c, args[1], args[2])

run_mv(f, c, args) ==
    IF Len(args) < 2 THEN Raise("TerminalError", m_mv_missing, f, c)
    ELSE mv(f, c, args[1], args[2])

run_cp(f, c, args) ==
    IF Len(args) < 2 THEN Raise("TerminalError", m_cp_missing, f, c)
    ELSE cp(f, c, args[1], args[2])

run_stat(f, c, args, env) ==
    IF args = <<>> THEN Raise("TerminalError", m_stat_missing, f, c)
    ELSE stat(f, c, args[1], env)

run_ps(f, c, args, env) ==
    IF args = <<>> THEN ps(f, c, env, 10)
    ELSE LET n == ParseInt(args[1]) IN
         IF ~n.ok THEN Raise("ValueError", e_invalid_int \o Repr(args[1]), f, c)
         ELSE ps(f, c, env, n.n)

\* A run that ignores a command it does not know. C8 does not hold of it.
unsupported_ignored(f, c, cmd) == Ok(<<>>, f, c)

unsupported(f, c, cmd) == Raise("TerminalError", m_unsupported \o cmd, f, c)

dispatch(f, c, cmd, args, env) ==
    IF cmd \in {s_ls, s_dir} THEN ls(f, c, IF args # <<>> THEN args[1] ELSE s_dot)
    ELSE IF cmd = s_pwd THEN Ok(pwd(c), f, c)
    ELSE IF cmd = s_cd THEN cd(f, c, IF args # <<>> THEN args[1] ELSE s_dot)
    ELSE IF cmd = s_mkdir THEN run_mkdir(f, c, args)
    ELSE IF cmd \in {s_rm, s_del} THEN run_rm(f, c, args)
    ELSE IF cmd = s_touch THEN run_touch(f, c, args)
    ELSE IF cmd = s_cat THEN run_cat(f, c, args)
    ELSE IF cmd = s_mv THEN run_mv(f, c, args)
    ELSE IF cmd = s_cp THEN run_cp(f, c, args)
    ELSE IF cmd = s_stat THEN run_stat(f, c, args, env)
    ELSE IF cmd = s_sysinfo THEN sysinfo(f, c, env)
    ELSE IF cmd = s_ps THEN run_ps(f, c, args, env)
    ELSE IF cmd \in {s_help, s_qmark} THEN Ok(m_help, f, c)
    ELSE IF cmd \in {s_exit, s_quit} THEN Ok(s_exit, f, c)
    ELSE unsupported(f, c, cmd)

\* except TerminalError: raise / except Exception as e: raise TerminalError(str(e))
reraise(r) ==
    IF r.exc \notin {"none", "TerminalError"} THEN [r EXCEPT !.exc = "TerminalError"] ELSE r

\* Terminal.run: the tokens are split before the try block is entered
run(f, c, cmdline, env) ==
    LET t == shlex_split(cmdline) IN
    IF ~t.ok THEN Raise("ValueError", t.msg, f, c)
    ELSE IF t.tokens = <<>> THEN Ok(<<>>, f, c)
    ELSE reraise(dispatch(f, c, t.tokens[1], Tail(t.tokens), env))

\* ------------------------------------------------------------------ inputs

\* Bound of the model: the number of entries of the host filesystem ("/", the
\* root and its sibling included). A command whose result would exceed it is
\* not issued.
MaxEntries == 5

\* Path operands
PathArgs ==
    { <<".">>, <<".", ".">>, <<"a">>, <<"b">>, <<"e", "x", "i", "t">>,
      <<"a", "/", "b">>, <<".", ".", "/", "a">>,
      <<"/", "r", "/", "a">>, <<"/", "r", "2", "/", "a">>, <<"/">> }

CommandNames ==
    { s_ls, s_dir, s_pwd, s_cd, s_mkdir, s_rm, s_del, s_touch, s_cat, s_mv, s_cp,
      s_stat, s_sysinfo, s_ps, s_help, s_qmark, s_exit, s_quit }

\* First tokens that are no command: an unknown word and a known one in capitals
OtherWords == { <<"f", "o", "o", "b", "a", "r">>, <<"L", "S">> }

\* Lines that read the host's clock, load or process table
HostLines ==
    {c : c \in {s_stat, s_sysinfo, s_ps}}
    \cup {s_stat \o <<SP>> \o p : p \in PathArgs}
    \cup {s_sysinfo \o <<SP>> \o p : p \in PathArgs}
    \cup {s_ps \o <<SP>> \o n : n \in PathArgs \cup { <<"2">>, <<"0">>, <<"-", "1">>, <<"1", ".", "5">> }}

\* Lines with quoting, escapes, blanks, surplus or empty operands
OddLines ==
    { <<>>, <<SP, SP>>,
      <<"l", "s", SP, DQ>>,                       \* ls "
      <<"c", "d", SP, "a", BS>>,                  \* cd a\
      <<"l", SQ, "s", SQ, SP, DQ, "a", DQ>>,      \* l's' "a"
      <<"r", "m", SP, DQ, DQ>>,                   \* rm ""
      <<"r", "m", SP, "-", "r">>,                 \* rm -r
      <<"r", "m", SP, "a", SP, "-", "r">>,        \* rm a -r
      <<"m", "v", SP, "a">>,                      \* mv a
      <<"l", "s", SP, "a", SP, ".", ".">>,        \* ls a ..
      <<"f", "o", "o", "b", "a", "r", SP, "a", SP, "b">> }

FileLines ==
    (CommandNames \ {s_stat, s_sysinfo, s_ps}) \cup OtherWords
    \cup {c \o <<SP>> \o p : c \in (CommandNames \ {s_stat, s_sysinfo, s_ps}) \cup OtherWords,
                             p \in PathArgs}
    \cup {c \o <<SP>> \o p \o <<SP>> \o q : c \in {s_mv, s_cp}, p \in PathArgs, q \in PathArgs}
    \cup {c \o <<SP>> \o s_dash_r \o <<SP>> \o p : c \in {s_rm, s_del}, p \in PathArgs}
    \cup OddLines

Lines == FileLines \cup HostLines

NoProc == [pid |-> 0, name |-> <<>>, username |-> <<>>, cpu_percent |-> -1, memory_percent |-> -1]
Proc(pid, name, user, cpu, mem) ==
    [pid |-> pid, name |-> name, username |-> user, cpu_percent |-> cpu, memory_percent |-> mem]

\* Host readings: a quiet host and a busy one
Env0 ==
    [mtime |-> <<"0", ".", "0">>, dirsize |-> <<"4", "0", "9", "6">>,
     cpu |-> <<"0", ".", "0">>, mem |-> <<"0", ".", "0">>, used |-> <<"0">>,
     procs |-> <<>>]
Env1 ==
    [mtime |-> <<"1", "7", "0", "0", "0", "0", "0", "0", "0", "0", ".", "5">>,
     dirsize |-> <<"4", "0", "9", "6">>,
     cpu |-> <<"1", "2", ".", "5">>, mem |-> <<"4", "0", ".", "1">>,
     used |-> <<"2", "0", "4", "8">>,
     procs |-> << Proc(1, <<"i", "n", "i", "t">>, <<"r", "o", "o", "t">>, 0, 1),
                  Proc(7, <<"b", "a", "s", "h">>, <<>>, 125, -1),
                  Proc(9, <<"t", "o", "p">>, <<"r", "o", "o", "t">>, -1, 30) >>]
Envs == {Env0, Env1}

\* strip() of a line leaves nothing
IsBlank(l) == \A i \in 1..Len(l) : l[i] \in Whitespace

\* ------------------------------------------------------------ the program

NoOut == [exc |-> "none", text |-> <<>>]

\* The host before the Terminal is constructed holds /r2 beside the place of
\* the root; the root is created if absent, or exists with a file in it.
InitialHosts ==
    { (<<>> :> DirNode) @@ (<< <<"r", "2">> >> :> DirNode) @@ (root :> DirNode),
      (<<>> :> DirNode) @@ (<< <<"r", "2">> >> :> DirNode) @@ (root :> DirNode)
         @@ (Append(root, <<"a">>) :> FileNode(<<"h", "i">>)) }

\* Terminal.__init__, called by cli.main
\* The callers of the web front end, and a caller with no request in progress
Callers == {1, 2}
Idle == [pc |-> "idle", toks |-> <<>>, ps |-> <<>>, out |-> NoOut]

Init ==
    /\ fs \in InitialHosts
    /\ cwd = root
    /\ pc = "prompt"
    /\ line = <<>>
    /\ out = NoOut
    /\ web = [k \in Callers |-> Idle]
    /\ own = [k \in Callers |-> root]

\* term.run(line), and what the call leaves behind
CallWithin(l, env, n) ==
    \E r \in {run(fs, cwd, l, env)} :
    /\ ~r.unbounded
    /\ Cardinality(DOMAIN r.fs) <= n
    /\ fs' = r.fs
    /\ cwd' = r.cwd
    /\ line' = l
    /\ out' = [exc |-> r.exc, text |-> r.text]
    /\ pc' = "report"
    /\ UNCHANGED <<web, own>>

Call(l, env) == CallWithin(l, env, MaxEntries)

\* cli.main: a blank line is read and skipped
CliSkip ==
    /\ pc = "prompt"
    /\ \E l \in Lines : IsBlank(l)
    /\ UNCHANGED <<fs, cwd, pc, line, out, web, own>>

\* cli.main: a line is read and run
CliRun ==
    /\ pc = "prompt"
    /\ \E l \in Lines : ~IsBlank(l) /\
          \E env \in (IF l \in HostLines THEN Envs ELSE {Env0}) : Call(l, env)

\* cli.main: out == "exit" ends the loop
CliExit ==
    /\ pc = "report"
    /\ out.exc = "none" /\ out.text = s_exit
    /\ pc' = "done"
    /\ UNCHANGED <<fs, cwd, line, out, web, own>>

\* cli.main: print(out)
CliPrint ==
    /\ pc = "report"
    /\ out.exc = "none" /\ out.text # s_exit
    /\ pc' = "prompt" /\ line' = <<>> /\ out' = NoOut
    /\ UNCHANGED <<fs, cwd, web, own>>

\* cli.main: except TerminalError: print("Error:", e)
CliError ==
    /\ pc = "report"
    /\ out.exc = "TerminalError"
    /\ pc' = "prompt" /\ line' = <<>> /\ out' = NoOut
    /\ UNCHANGED <<fs, cwd, web, own>>

\* cli.main: any other exception leaves the loop through the finally clause
CliCrash ==
    /\ pc = "report"
    /\ out.exc \notin {"none", "TerminalError"}
    /\ pc' = "crashed"
    /\ UNCHANGED <<fs, cwd, line, out, web, own>>

Next ==
    \/ CliSkip \/ CliRun \/ CliExit \/ CliPrint \/ CliError \/ CliCrash

Spec == Init /\ [][Next]_vars

\* ------------------------------------------------- sessions that go deeper
\* The same loop fed with few commands and paths of up to three components,
\* on a host with room for one entry more.

MaxDeepEntries == 6

DeepPaths ==
    { <<".">>, <<"a">>, <<"a", "/", "b">>, <<"a", "/", "b", "/", "c">>,
      <<"b", "/", ".", ".", "/", "a", "/", "b">> }

DeepLines ==
    {c \o <<SP>> \o p : c \in {s_mkdir, s_ls}, p \in DeepPaths}
    \cup {s_touch \o <<SP>> \o p : p \in { <<"a">>, <<"a", "/", "b">> }}
    \cup {s_cd \o <<SP>> \o p : p \in { <<"a">>, s_dotdot }}
    \cup {s_rm \o <<SP>> \o s_dash_r \o <<SP>> \o p : p \in { <<"a">>, <<"a", "/", "b">> }}

\* cli.main: one of these lines is read and run
DeepRun ==
    /\ pc = "prompt"
    /\ \E l \in DeepLines : CallWithin(l, Env0, MaxDeepEntries)

DeepNext ==
    \/ DeepRun \/ CliPrint \/ CliError

SpecDeep == Init /\ [][DeepNext]_vars

\* ------------------------------------------------------- web front end
\* web_app.index runs every posted command on the one module-level Terminal.
\* Requests of different callers are served by different threads, so their
\* calls of run interleave: each reads self.cwd when it resolves an operand,
\* then works on the host with the resolved paths, and cd assigns self.cwd at
\* the end.

MaxWebEntries == 5

WebLines ==
    {s_cd \o <<SP>> \o p : p \in { <<"a">>, s_dotdot }}
    \cup {s_mkdir \o <<SP>> \o p : p \in { <<"a">>, <<".", ".", "/", "b">> }}
    \cup {s_rm \o <<SP>> \o s_dash_r \o <<SP>> \o p : p \in { <<"a">>, s_dot }}
    \cup {s_mv \o <<SP>> \o <<"a">> \o <<SP>> \o p : p \in { <<".", ".", "/", "b">> }}
    \cup {s_pwd}

\* The path operands run hands to the handler of cmd, in the order in which
\* the handler resolves them; none when run answers without a handler that
\* takes a path
operands(cmd, args) ==
    IF cmd \in {s_ls, s_dir, s_cd} THEN (IF args = <<>> THEN <<s_dot>> ELSE <<args[1]>>)
    ELSE IF cmd \in {s_mkdir, s_touch, s_cat, s_stat}
         THEN (IF args = <<>> THEN <<>> ELSE <<args[1]>>)
    ELSE IF cmd \in {s_rm, s_del}
         THEN (IF args = <<>> THEN <<>>
               ELSE IF args[1] # s_dash_r THEN (IF args[1] = <<>> THEN <<>> ELSE <<args[1]>>)
               ELSE IF Len(args) > 1 /\ args[2] # <<>> THEN <<args[2]>> ELSE <<>>)
    ELSE IF cmd \in {s_mv, s_cp}
         THEN (IF Len(args) < 2 THEN <<>> ELSE <<args[1], args[2]>>)
    ELSE <<>>

\* A Terminal of its own for every caller. C14 does not hold of it.
term_cwd_own(k) == own[k]

\* The working directory a request of caller k reads: that of the one
\* Terminal of the module, whoever assigned it
term_cwd(k) == cwd

\* The command line of a request with its operands replaced by the paths
\* they were resolved to
resolved_line(w) ==
    LET cmd == w.toks[1]
        flag == IF cmd \in {s_rm, s_del} /\ w.toks[2] = s_dash_r THEN <<SP>> \o s_dash_r ELSE <<>>
    IN  cmd \o flag \o <<SP>> \o PathStr(w.ps[1])
        \o (IF Len(w.ps) > 1 THEN <<SP>> \o PathStr(w.ps[2]) ELSE <<>>)

\* A cd that resolves its operand again when it assigns, against the working
\* directory of that moment and without the check. C19 does not hold of it.
cd_target_late(c, w) == Normalize(c, PathParts(operands(w.toks[1], Tail(w.toks))[1]))

\* The directory cd assigns: new, as resolved and checked before
cd_target(c, w) == w.ps[1]

Respond(w, r) == [w EXCEPT !.pc = "respond", !.out = [exc |-> r.exc, text |-> r.text]]

\* index: a command is posted; run tokenises it and picks the handler
WebPost(k) ==
    /\ web[k].pc = "idle"
    /\ \E l \in WebLines : \E t \in {shlex_split(l).tokens} :
          IF operands(t[1], Tail(t)) = <<>>
          THEN \E r \in {run(fs, term_cwd(k), l, Env0)} :
                  web' = [web EXCEPT ![k] = Respond([web[k] EXCEPT !.toks = t], r)]
          ELSE web' = [web EXCEPT ![k] = [pc |-> "resolve", toks |-> t, ps |-> <<>>, out |-> NoOut]]
    /\ UNCHANGED <<fs, cwd, pc, line, out, own>>

\* _resolve_path: self.cwd is read and the next operand resolved and checked
WebResolve(k) ==
    /\ web[k].pc = "resolve"
    /\ LET w == web[k]
           raw == operands(w.toks[1], Tail(w.toks))
           r == _resolve_path(term_cwd(k), raw[Len(w.ps) + 1])
       IN  web' = [web EXCEPT ![k] =
                     IF ~r.ok THEN Respond(w, Raise("TerminalError", r.text, fs, cwd))
                     ELSE [w EXCEPT !.ps = Append(w.ps, r.p),
                                    !.pc = IF Len(w.ps) + 1 = Len(raw) THEN "act" ELSE "resolve"]]
    /\ UNCHANGED <<fs, cwd, pc, line, out, own>>

\* The handler works on the host with the paths it resolved; cd tests its
\* target
WebAct(k) ==
    /\ web[k].pc = "act"
    /\ LET w == web[k] IN
       IF w.toks[1] = s_cd
       THEN /\ web' = [web EXCEPT ![k] =
                         IF is_dir(fs, w.ps[1]) THEN [w EXCEPT !.pc = "assign"]
                         ELSE Respond(w, Raise("TerminalError", m_not_a_dir, fs, cwd))]
            /\ fs' = fs
       ELSE \E r \in {run(fs, cwd, resolved_line(w), Env0)} :
            /\ ~r.unbounded
            /\ Cardinality(DOMAIN r.fs) <= MaxWebEntries
            /\ fs' = r.fs
            /\ web' = [web EXCEPT ![k] = Respond(w, r)]
    /\ UNCHANGED <<cwd, pc, line, out, own>>

\* cd: self.cwd = new
WebAssign(k) ==
    /\ web[k].pc = "assign"
    /\ cwd' = cd_target(cwd, web[k])
    /\ own' = [own EXCEPT ![k] = cd_target(cwd, web[k])]
    /\ web' = [web EXCEPT ![k].pc = "pwd"]
    /\ UNCHANGED <<fs, pc, line, out>>

\* cd: return self.pwd()
WebPwd(k) ==
    /\ web[k].pc = "pwd"
    /\ web' = [web EXCEPT ![k] = Respond(web[k], Ok(pwd(term_cwd(k)), fs, cwd))]
    /\ UNCHANGED <<fs, cwd, pc, line, out, own>>

\* index: the page with the output, or with "Error: ..." for a TerminalError,
\* is returned
WebRespond(k) ==
    /\ web[k].pc = "respond"
    /\ web' = [web EXCEPT ![k] = Idle]
    /\ UNCHANGED <<fs, cwd, pc, line, out, own>>

WebNext ==
    \/ \E k \in Callers : WebPost(k)
    \/ \E k \in Callers : WebResolve(k)
    \/ \E k \in Callers : WebAct(k)
    \/ \E k \in Callers : WebAssign(k)
    \/ \E k \in Callers : WebPwd(k)
    \/ \E k \in Callers : WebRespond(k)

SpecWeb == Init /\ [][WebNext]_vars

\* ------------------------------------------------------------------ claims

\* The tokens of a line; the command and the arguments of a token list
TokensOf(l) == shlex_split(l).tokens
CmdOf(t) == IF t = <<>> THEN <<>> ELSE t[1]
ArgsOf(t) == IF t = <<>> THEN <<>> ELSE Tail(t)

\* The path operands a token list gives to its handler
OperandsOf(t) ==
    LET cmd == CmdOf(t)
        args == ArgsOf(t)
    IN  IF cmd \in {s_ls, s_dir, s_cd} THEN (IF args = <<>> THEN {s_dot} ELSE {args[1]})
        ELSE IF cmd \in {s_mkdir, s_touch, s_cat, s_stat}
             THEN (IF args = <<>> THEN {} ELSE {args[1]})
        ELSE IF cmd \in {s_rm, s_del}
             THEN (IF args = <<>> THEN {}
                   ELSE IF args[1] # s_dash_r THEN {args[1]}
                   ELSE IF Len(args) > 1 THEN {args[2]} ELSE {}) \ {<<>>}
        ELSE IF cmd \in {s_mv, s_cp}
             THEN (IF Len(args) < 2 THEN {} ELSE {args[1], args[2]})
        ELSE {}

\* The location a path operand normalizes to, from working directory c
LocationOf(c, path) ==
    IF is_absolute(path) THEN Normalize(<<>>, PathParts(path))
    ELSE Normalize(c, PathParts(path))

Within(p) == IsPrefix(root, p)

\* A step of the loop in which run is called and returns or raises
IsCall == pc = "prompt" /\ pc' = "report"

Failed(o) == o.exc # "none"

\* C1: the working directory is the root or a descendant of the root,
\* component by component, after any sequence of run calls.
C1_CwdWithinRoot == Within(cwd)

\* C1 witness: a cd has moved the working directory below the root, and a
\* later cd out of the root has failed there.
C1_Witness ==
    /\ pc = "report" /\ TokensOf(line) = <<s_cd, <<SL>> >>
    /\ out.exc = "TerminalError"
    /\ Len(cwd) > Len(root)

\* C2: a path-taking command with an operand that normalizes outside the root
\* fails with "Path outside sandbox" and changes neither the filesystem nor
\* the working directory (cd .. at the root included).
C2_OutsideOperandFails ==
    [][ IsCall => \A t \in {TokensOf(line')} :
        (\E a \in OperandsOf(t) : ~Within(LocationOf(cwd, a)))
        => /\ out'.exc = "TerminalError"
           /\ StartsWith(out'.text, m_outside)
           /\ fs' = fs
           /\ cwd' = cwd ]_vars

\* C2 witness: mv of an existing entry to a destination outside the root has
\* failed with the sandbox error.
C2_Witness ==
    /\ pc = "report"
    /\ \E t \in {TokensOf(line)} :
          /\ Len(t) = 3 /\ t[1] = s_mv
          /\ exists(fs, LocationOf(cwd, t[2]))
          /\ Within(LocationOf(cwd, t[2]))
          /\ ~Within(LocationOf(cwd, t[3]))
    /\ out.exc = "TerminalError" /\ StartsWith(out.text, m_outside)

\* C2 witness for the particular case: cd .. at the root has failed.
C2_WitnessCdUp ==
    /\ pc = "report" /\ line = s_cd \o <<SP>> \o s_dotdot
    /\ cwd = root /\ pwd(cwd) = <<SL>>
    /\ out.exc = "TerminalError"

\* C3: run returns a string or raises TerminalError, for every line.
C3_OnlyTerminalError ==
    pc = "report" => out.exc \in {"none", "TerminalError"}

\* Same content: the entry at p in f and the entry at q in g are both files
\* with the same data, or directories with the same subtrees.
SameEntry(f, p, g, q) ==
    /\ exists(f, p) /\ exists(g, q)
    /\ {<<SubSeq(x, Len(p) + 1, Len(x)), f[x]>> : x \in Subtree(f, p)}
       = {<<SubSeq(y, Len(q) + 1, Len(y)), g[y]>> : y \in Subtree(g, q)}

NotFoundText(t) ==
    t = m_no_such \/ StartsWith(t, e_enoent) \/ StartsWith(t, e_enotdir)

\* C4: a run call that fails leaves the filesystem as it was; mv and cp of a
\* source that does not exist fail with a not-found error and create nothing.
C4_FailureLeavesFilesystem ==
    [][ IsCall =>
          /\ Failed(out') => fs' = fs
          /\ \A t \in {TokensOf(line')} :
                ( /\ CmdOf(t) \in {s_mv, s_cp} /\ Len(t) >= 3
                  /\ \A a \in OperandsOf(t) : Within(LocationOf(cwd, a))
                  /\ ~exists(fs, LocationOf(cwd, t[2])) )
                => (Failed(out') /\ NotFoundText(out'.text) /\ fs' = fs) ]_vars

\* The lines that strip() empties
BlankLines == {l \in Lines : IsBlank(l)}

\* C5: the working directory changes only in a call of cd that succeeds;
\* run of a blank line returns "" and changes nothing.
C5_OnlyCdMovesCwd ==
    [][ /\ cwd' # cwd => (IsCall /\ ~Failed(out') /\ \E t \in {TokensOf(line')} : CmdOf(t) = s_cd)
        /\ \A l \in BlankLines : run(fs, cwd, l, Env0) = Ok(<<>>, fs, cwd) ]_vars

\* C5 witness: a cd to a regular file has failed below the root.
C5_Witness ==
    /\ pc = "report"
    /\ \E t \in {TokensOf(line)} :
          /\ Len(t) = 2 /\ t[1] = s_cd
          /\ exists(fs, LocationOf(cwd, t[2]))
          /\ ~is_dir(fs, LocationOf(cwd, t[2]))
    /\ out.exc = "TerminalError" /\ out.text = m_not_a_dir
    /\ cwd # root

\* C6: exit and quit return the sentinel "exit" without error and without
\* changing state, no other command returns it, and the loop of cli.main ends
\* only on exit or quit.
C6_SentinelOnlyFromExit ==
    [][ /\ IsCall =>
             \A t \in {TokensOf(line')} :
               /\ CmdOf(t) \in {s_exit, s_quit}
                    => (out' = [exc |-> "none", text |-> s_exit] /\ fs' = fs /\ cwd' = cwd)
               /\ (out'.exc = "none" /\ out'.text = s_exit)
                    => CmdOf(t) \in {s_exit, s_quit}
        /\ (pc # "done" /\ pc' = "done")
             => CmdOf(TokensOf(line)) \in {s_exit, s_quit} ]_vars

\* The message of a missing operand, by command
MissingText(cmd) ==
    CASE cmd = s_mkdir -> m_mkdir_missing
      [] cmd \in {s_rm, s_del} -> m_rm_missing
      [] cmd = s_touch -> m_touch_missing
      [] cmd = s_cat -> m_cat_missing
      [] cmd = s_stat -> m_stat_missing
      [] cmd = s_mv -> m_mv_missing
      [] cmd = s_cp -> m_cp_missing

LacksOperand(t) ==
    \/ CmdOf(t) \in {s_mkdir, s_rm, s_del, s_touch, s_cat, s_stat} /\ ArgsOf(t) = <<>>
    \/ CmdOf(t) \in {s_rm, s_del} /\ ArgsOf(t) = <<s_dash_r>>
    \/ CmdOf(t) \in {s_mv, s_cp} /\ Len(ArgsOf(t)) < 2

\* C7: a command that lacks a required operand fails with its missing-operand
\* message, and the filesystem and the working directory are unchanged.
C7_MissingOperand ==
    [][ IsCall => \A t \in {TokensOf(line')} : LacksOperand(t)
        => /\ out' = [exc |-> "TerminalError", text |-> MissingText(CmdOf(t))]
           /\ Contains(out'.text, <<"m", "i", "s", "s", "i", "n", "g", " ", "o", "p", "e", "r", "a", "n", "d">>)
           /\ fs' = fs
           /\ cwd' = cwd ]_vars

\* C7 witness: mv with one operand, naming an existing entry, has failed.
C7_Witness ==
    /\ pc = "report"
    /\ \E t \in {TokensOf(line)} :
          Len(t) = 2 /\ t[1] = s_mv /\ exists(fs, LocationOf(cwd, t[2]))
    /\ out = [exc |-> "TerminalError", text |-> m_mv_missing]

\* C7 witness: rm -r without a path has failed.
C7_WitnessRmFlag ==
    /\ pc = "report" /\ TokensOf(line) = <<s_rm, s_dash_r>>
    /\ out = [exc |-> "TerminalError", text |-> m_rm_missing]

\* C8: a line whose first token is no command name or alias fails with
\* "Unsupported command: <token>", whatever follows, and changes nothing.
C8_UnsupportedCommand ==
    [][ IsCall => \A t \in {TokensOf(line')} : (t # <<>> /\ t[1] \notin CommandNames)
        => /\ out' = [exc |-> "TerminalError", text |-> m_unsupported \o t[1]]
           /\ fs' = fs
           /\ cwd' = cwd ]_vars

\* C8 witness: LS with an operand has failed although ls would list it.
C8_Witness ==
    /\ pc = "report"
    /\ \E t \in {TokensOf(line)} :
          /\ Len(t) = 2 /\ t[1] = <<"L", "S">>
          /\ is_dir(fs, LocationOf(cwd, t[2]))
          /\ Within(LocationOf(cwd, t[2]))
    /\ out.exc = "TerminalError"

\* The names a round trip is tried with
RoundTripNames == { <<"a">>, <<"b">>, <<"x">> }

\* mkdir x, cd x, pwd, cd .., pwd from filesystem f and working directory c
RoundTrip(f, c, x) ==
    LET s1 == run(f, c, s_mkdir \o <<SP>> \o x, Env0)
        s2 == run(s1.fs, s1.cwd, s_cd \o <<SP>> \o x, Env0)
        s3 == run(s2.fs, s2.cwd, s_pwd, Env0)
        s4 == run(s3.fs, s3.cwd, s_cd \o <<SP>> \o s_dotdot, Env0)
        s5 == run(s4.fs, s4.cwd, s_pwd, Env0)
    IN  <<s1, s2, s3, s4, s5>>

RoundTripHolds(f, c, x) ==
    LET t == RoundTrip(f, c, x) IN
    /\ \A i \in 1..5 : t[i].exc = "none"
    /\ t[3].text = (IF c = root THEN <<SL>> \o x ELSE pwd(c) \o <<SL>> \o x)
    /\ t[5].text = pwd(c)

\* C9: from any working directory and any new name x, mkdir x, cd x, pwd,
\* cd .., pwd gives the joined path and then the original one; pwd begins
\* with "/" and is "/" exactly at the root.
C9_RoundTrip ==
    pc = "prompt" =>
        /\ \A x \in RoundTripNames :
              ~exists(fs, Append(cwd, x)) => RoundTripHolds(fs, cwd, x)
        /\ pwd(cwd)[1] = SL
        /\ (pwd(cwd) = <<SL>>) <=> (cwd = root)

\* C10: after a successful mv a b of an existing a to another path b, a is
\* gone, b exists and b holds what a held.
C10_MoveRenames ==
    [][ IsCall => \A t \in {TokensOf(line')} :
          ( /\ Len(t) >= 3 /\ t[1] = s_mv
            /\ ~Failed(out')
            /\ exists(fs, LocationOf(cwd, t[2]))
            /\ LocationOf(cwd, t[2]) # LocationOf(cwd, t[3]) )
          => LET a == LocationOf(cwd, t[2])
                 b == LocationOf(cwd, t[3])
             IN  /\ ~exists(fs', a)
                 /\ SameEntry(fs, a, fs', b) ]_vars

\* The lines of a text
RECURSIVE SplitLines(_, _, _, _)
SplitLines(s, i, cur, acc) ==
    IF i > Len(s) THEN acc \cup {cur}
    ELSE IF s[i] = NL THEN SplitLines(s, i + 1, <<>>, acc \cup {cur})
    ELSE SplitLines(s, i + 1, Append(cur, s[i]), acc)

\* ls of the directory at p does not list the name n
NotListed(f, c, p, n) ==
    LET r == run(f, c, s_ls \o <<SP>> \o PathStr(p), Env0) IN
    r.exc = "none" => SplitLines(r.text, 1, <<>>, {}) \cap {n, n \o <<SL>>} = {}

\* rm -r p or del -r p, as tokens
IsRmTree(t) == Len(t) >= 3 /\ t[1] \in {s_rm, s_del} /\ t[2] = s_dash_r

\* C11: rm -r d on an existing directory d inside the root succeeds and
\* removes d with all its descendants and nothing else; ls of d's parent no
\* longer lists d.
C11_RmTreeRemovesSubtree ==
    [][ IsCall => \A t \in {TokensOf(line')} :
          (IsRmTree(t) /\ Within(LocationOf(cwd, t[3])) /\ is_dir(fs, LocationOf(cwd, t[3])))
          => LET d == LocationOf(cwd, t[3]) IN
             /\ out'.exc = "none"
             /\ DOMAIN fs' = {q \in DOMAIN fs : ~IsPrefix(d, q)}
             /\ \A q \in DOMAIN fs' : fs'[q] = fs[q]
             /\ cwd' = cwd
             /\ NotListed(fs', cwd', Parent(d), Name(d)) ]_vars

\* C11 witness: at the prompt there is a directory that is not empty and is
\* neither the working directory nor above it, and rm -r of it succeeds.
C11_Witness ==
    /\ pc = "prompt"
    /\ \E l \in Lines : \E t \in {TokensOf(l)} :
          /\ IsRmTree(t)
          /\ Within(LocationOf(cwd, t[3])) /\ is_dir(fs, LocationOf(cwd, t[3]))
          /\ Children(fs, LocationOf(cwd, t[3])) # {}
          /\ ~IsPrefix(LocationOf(cwd, t[3]), cwd)
          /\ run(fs, cwd, l, Env0).exc = "none"
          /\ ~exists(run(fs, cwd, l, Env0).fs, LocationOf(cwd, t[3]))

\* mkdir p, as tokens
IsMkdir(t) == Len(t) >= 2 /\ t[1] = s_mkdir

\* The prefixes of a path, the path included
Prefixes(p) == {SubSeq(p, 1, k) : k \in 0..Len(p)}

\* No existing component of p is a regular file
ThroughDirectories(f, p) == \A q \in Prefixes(p) : exists(f, q) => f[q].dir

\* ls of the directory at p lists the directory n
ListedAsDir(f, c, p, n) ==
    LET r == run(f, c, s_ls \o <<SP>> \o PathStr(p), Env0) IN
    r.exc = "none" /\ (n \o <<SL>>) \in SplitLines(r.text, 1, <<>>, {})

\* C12 as stated: mkdir p creates p and every missing intermediate directory,
\* and on a path that already exists it raises no error and changes nothing.
C12_MkdirAsStated ==
    [][ IsCall => \A t \in {TokensOf(line')} :
          (IsMkdir(t) /\ Within(LocationOf(cwd, t[2])))
          => LET p == LocationOf(cwd, t[2]) IN
             /\ out'.exc = "none"
             /\ \A q \in Prefixes(p) : is_dir(fs', q)
             /\ exists(fs, p) => fs' = fs ]_vars

\* C12: when no existing component of p is a regular file, mkdir p creates
\* p and every missing intermediate directory and nothing else, and ls of
\* p's parent lists it; on an existing directory it raises no error and
\* changes nothing; on an existing regular file it fails and changes nothing.
C12_MkdirParents ==
    [][ IsCall => \A t \in {TokensOf(line')} :
          (IsMkdir(t) /\ Within(LocationOf(cwd, t[2])))
          => LET p == LocationOf(cwd, t[2]) IN
             /\ ThroughDirectories(fs, p)
                  => /\ out'.exc = "none"
                     /\ DOMAIN fs' = DOMAIN fs \cup Prefixes(p)
                     /\ \A q \in DOMAIN fs' : fs'[q] = (IF exists(fs, q) THEN fs[q] ELSE DirNode)
                     /\ p # root => ListedAsDir(fs', cwd', Parent(p), Name(p))
             /\ is_dir(fs, p) => (out'.exc = "none" /\ fs' = fs)
             /\ (exists(fs, p) /\ ~is_dir(fs, p))
                  => (out'.exc = "TerminalError" /\ StartsWith(out'.text, e_eexist) /\ fs' = fs)
             /\ cwd' = cwd ]_vars

\* C12 witness: mkdir a/b/c has created a, a/b and a/b/c, and ls a/b lists c/.
C12_Witness ==
    /\ pc = "report" /\ out.exc = "none"
    /\ line = s_mkdir \o <<SP>> \o <<"a", "/", "b", "/", "c">>
    /\ cwd = root
    /\ Children(fs, root) = {Append(root, <<"a">>)}
    /\ Cardinality(Subtree(fs, root)) = 4
    /\ run(fs, cwd, s_ls \o <<SP>> \o <<"a", "/", "b">>, Env0).text = <<"c", SL>>

\* C13: no text that run hands back, a result or the message of a failed
\* filesystem operation, contains the absolute host path of the root (the
\* echo of the operand in "Path outside sandbox" aside).
C13_NoHostPath ==
    (pc = "report" /\ ~StartsWith(out.text, m_outside))
        => ~Contains(out.text, PathStr(root))

\* rm p or del p without the flag, as tokens
IsRmPlain(t) == Len(t) >= 2 /\ t[1] \in {s_rm, s_del} /\ t[2] # s_dash_r /\ t[2] # <<>>

\* C15: rm p without -r fails with "No such file or directory" when p does
\* not exist, removes exactly the file p, removes the empty directory p, and
\* on a directory that is not empty fails with a "Directory not empty" error
\* and leaves everything in place.
C15_RmPlain ==
    [][ IsCall => \A t \in {TokensOf(line')} :
          (IsRmPlain(t) /\ Within(LocationOf(cwd, t[2])))
          => LET p == LocationOf(cwd, t[2]) IN
             /\ cwd' = cwd
             /\ ~exists(fs, p)
                  => (out' = [exc |-> "TerminalError", text |-> m_no_such] /\ fs' = fs)
             /\ (exists(fs, p) /\ (~is_dir(fs, p) \/ Children(fs, p) = {}))
                  => /\ out'.exc = "none"
                     /\ DOMAIN fs' = DOMAIN fs \ {p}
                     /\ \A q \in DOMAIN fs' : fs'[q] = fs[q]
             /\ (is_dir(fs, p) /\ Children(fs, p) # {})
                  => /\ out'.exc = "TerminalError"
                     /\ Contains(out'.text, <<"D", "i", "r", "e", "c", "t", "o", "r", "y", " ",
                                              "n", "o", "t", " ", "e", "m", "p", "t", "y">>)
                     /\ fs' = fs ]_vars

\* C15 witness: rm of a directory below the working directory that is not
\* empty has failed and the directory still holds its entry.
C15_Witness ==
    /\ pc = "report" /\ out.exc = "TerminalError"
    /\ \E t \in {TokensOf(line)} :
          /\ IsRmPlain(t)
          /\ LocationOf(cwd, t[2]) # cwd
          /\ Within(LocationOf(cwd, t[2]))
          /\ Children(fs, LocationOf(cwd, t[2])) # {}

\* A location beside the root whose text begins with the text of the root
SharesRootText(p) == ~Within(p) /\ StartsWith(PathStr(p), PathStr(root))

\* C16: containment is decided on path components: an operand that resolves
\* beside the root to a path whose text begins with the root's text is
\* rejected with "Path outside sandbox", and the root and every path whose
\* leading components are the root's are accepted.
C16_ComponentContainment ==
    [][ IsCall => \A t \in {TokensOf(line')} :
          \A loc \in {[a \in OperandsOf(t) |-> LocationOf(cwd, a)]} :
          /\ \A a \in DOMAIN loc : _resolve_path(cwd, a).ok <=> Within(loc[a])
          /\ (\E a \in DOMAIN loc : SharesRootText(loc[a]))
               => /\ out'.exc = "TerminalError"
                  /\ StartsWith(out'.text, m_outside)
                  /\ fs' = fs /\ cwd' = cwd
          /\ (\A a \in DOMAIN loc : Within(loc[a]))
               => ~StartsWith(out'.text, m_outside) ]_vars

\* C16 witness: mkdir /r2/a, beside the root /r, has been rejected and the
\* host has no such entry.
C16_Witness ==
    /\ pc = "report"
    /\ TokensOf(line) = <<s_mkdir, <<SL, "r", "2", SL, "a">> >>
    /\ SharesRootText(LocationOf(cwd, <<SL, "r", "2", SL, "a">>))
    /\ out = [exc |-> "TerminalError", text |-> m_outside \o <<SL, "r", "2", SL, "a">>]
    /\ ~exists(fs, << <<"r", "2">>, <<"a">> >>)

\* The lines of a text, in order
TextLines(s) ==
    IF s = <<>> THEN <<>>
    ELSE LET nl == {i \in 1..Len(s) : s[i] = NL}
             at(k) == IF k = 0 THEN 0
                      ELSE IF k > Cardinality(nl) THEN Len(s) + 1
                      ELSE CHOOSE i \in nl : Cardinality({j \in nl : j < i}) = k - 1
         IN  [k \in 1..(Cardinality(nl) + 1) |-> SubSeq(s, at(k - 1) + 1, at(k) - 1)]

\* shown lists, in descending cpu order, the min(n, all) records of procs
\* that have the highest cpu
TopByCpu(procs, shown, n) ==
    /\ Len(shown) <= (IF n < 0 THEN 0 ELSE n)
    /\ Len(shown) = (IF n < 0 THEN 0 ELSE IF n < Len(procs) THEN n ELSE Len(procs))
    /\ \E idx \in [1..Len(shown) -> 1..Len(procs)] :
          /\ \A i, j \in 1..Len(shown) : i # j => idx[i] # idx[j]
          /\ \A i \in 1..Len(shown) : shown[i] = ps_line(procs[idx[i]])
          /\ \A i, j \in 1..Len(shown) :
                i < j => OrZero(procs[idx[i]].cpu_percent) >= OrZero(procs[idx[j]].cpu_percent)
          /\ \A i \in 1..Len(shown) : \A k \in 1..Len(procs) :
                (\A j \in 1..Len(shown) : idx[j] # k)
                => OrZero(procs[idx[i]].cpu_percent) >= OrZero(procs[k].cpu_percent)

\* C17: ps with an integer limit n (10 when omitted) lists at most n records,
\* those of the snapshot with the highest cpu, in descending cpu order; with
\* an argument that is no integer it fails and lists nothing.
C17_PsLimit ==
    [][ IsCall => \A t \in {TokensOf(line')} :
          (t # <<>> /\ t[1] = s_ps)
          => LET arg == IF Len(t) >= 2 THEN ParseInt(t[2]) ELSE [ok |-> TRUE, n |-> 10] IN
             /\ ~arg.ok => (out'.exc = "TerminalError" /\ StartsWith(out'.text, e_invalid_int))
             /\ arg.ok => /\ out'.exc = "none"
                          /\ \E env \in Envs :
                                TopByCpu(env.procs, TextLines(out'.text), arg.n)
             /\ fs' = fs /\ cwd' = cwd ]_vars

\* C18: the working directory names a directory that exists on the host, and
\* so do its ancestors down to the root: no rm or mv can delete or rename any
\* of them.
C18_CwdExists ==
    \A k \in Len(root)..Len(cwd) : is_dir(fs, SubSeq(cwd, 1, k))

\* A step in which caller k resolves an operand
IsResolve(k) == web[k].pc = "resolve" /\ web'[k] # web[k]

\* The operand caller k is about to resolve
NextOperand(w) == operands(w.toks[1], Tail(w.toks))[Len(w.ps) + 1]

\* C14: callers of one shared interpreter are not isolated: every operand is
\* resolved against the one working directory, as the last cd of any caller
\* left it, and not against the directory the caller's own cd commands led to.
C14_SharedCwd ==
    [][ \A k \in Callers : IsResolve(k) =>
          LET a == NextOperand(web[k]) IN
          IF Within(LocationOf(cwd, a))
          THEN web'[k].ps = Append(web[k].ps, LocationOf(cwd, a))
          ELSE web'[k].pc = "respond" /\ web'[k].out.exc = "TerminalError" ]_vars

\* C14 witness: caller k, whose own cd commands never left the root, has run
\* mkdir a after another caller's cd a, and the directory was made in /a and
\* not in the root.
C14_Witness ==
    \E k \in Callers :
        /\ own[k] = root /\ cwd # root
        /\ web[k].pc = "respond" /\ web[k].out.exc = "none"
        /\ web[k].toks = <<s_mkdir, <<"a">> >>
        /\ web[k].ps = << cwd \o << <<"a">> >> >>
        /\ web[k].ps[1] # LocationOf(own[k], <<"a">>)
        /\ is_dir(fs, web[k].ps[1])

\* C19: under every interleaving of the steps of concurrent run calls on one
\* interpreter, the working directory stays within the root and every entry
\* created, deleted or changed on the host lies within the root.
C19_InterleavingsStayWithin ==
    [][ /\ Within(cwd) /\ Within(cwd')
        /\ \A q \in DOMAIN fs \cup DOMAIN fs' :
              (q \notin DOMAIN fs \/ q \notin DOMAIN fs' \/ fs[q] # fs'[q]) => Within(q) ]_vars

\* C19 witness: an mv whose operands were resolved against two different
\* working directories, another caller's cd a having come between, has
\* renamed /a to /b.
C19_Witness ==
    \E k \in Callers :
        /\ web[k].pc = "respond" /\ web[k].out.exc = "none"
        /\ web[k].toks[1] = s_mv
        /\ web[k].ps = << Append(root, <<"a">>), Append(root, <<"b">>) >>
        /\ is_dir(fs, Append(root, <<"b">>))
        /\ cwd = Append(root, <<"a">>)

====
